---- MODULE Spec2Model ----
(***************************************************************************)
(* Model of skills/xmind/scripts/xmind_tool.py: the Sheet/Topic document   *)
(* model, the outline (Markdown) codec, the zen and legacy package codecs, *)
(* format detection and the create/update commands.                        *)
(*                                                                         *)
(* Text is a sequence of one-character strings, so that formatting and     *)
(* parsing are computed character by character as the code computes them.  *)
(***************************************************************************)
EXTENDS Integers, Sequences, FiniteSets, TLC

(***************************************************************************)
(* Python str / re primitives used by the tool                             *)
(***************************************************************************)

\* str.strip() and the regex class \s: the whitespace characters
WS == {" ", "\t", "\n", "\r", "\f"}

\* str.splitlines(): the line boundaries
LineBreaks == {"\n", "\r", "\f"}

RECURSIVE LStrip(_)
LStrip(s) == IF Len(s) > 0 /\ Head(s) \in WS THEN LStrip(Tail(s)) ELSE s

RECURSIVE RStrip(_)
RStrip(s) ==
  IF Len(s) > 0 /\ s[Len(s)] \in WS THEN RStrip(SubSeq(s, 1, Len(s) - 1)) ELSE s

Strip(s) == RStrip(LStrip(s))

StartsWith(s, p) == Len(s) >= Len(p) /\ SubSeq(s, 1, Len(p)) = p

\* number of leading whitespace characters: len of the group (\s*)
RECURSIVE LeadWS(_)
LeadWS(s) == IF Len(s) > 0 /\ Head(s) \in WS THEN 1 + LeadWS(Tail(s)) ELSE 0

\* s[n:] for 0 <= n
Drop(s, n) == SubSeq(s, n + 1, Len(s))

\* the first index >= from at which sep occurs in s, or 0
FirstMatch(s, sep, from) ==
  LET at == {i \in from..(Len(s) - Len(sep) + 1) : SubSeq(s, i, i + Len(sep) - 1) = sep}
  IN  IF at = {} THEN 0 ELSE CHOOSE i \in at : \A k \in at : i <= k

RECURSIVE SplitFrom(_, _, _)
SplitFrom(s, sep, start) ==
  LET i == FirstMatch(s, sep, start)
  IN  IF i = 0 THEN << SubSeq(s, start, Len(s)) >>
      ELSE << SubSeq(s, start, i - 1) >> \o SplitFrom(s, sep, i + Len(sep))

\* str.split(sep) and re.split of a literal pattern: leftmost, non-overlapping
Split(s, sep) == SplitFrom(s, sep, 1)

RECURSIVE Join(_, _)
Join(parts, sep) ==
  IF Len(parts) = 0 THEN << >>
  ELSE IF Len(parts) = 1 THEN parts[1]
  ELSE parts[1] \o sep \o Join(Tail(parts), sep)

\* the first index >= from of a line boundary in s, or 0
FirstBreak(s, from) ==
  LET at == {i \in from..Len(s) : s[i] \in LineBreaks}
  IN  IF at = {} THEN 0 ELSE CHOOSE i \in at : \A k \in at : i <= k

RECURSIVE SplitLinesFrom(_, _)
SplitLinesFrom(s, start) ==
  LET i == FirstBreak(s, start)
      nxt == IF s[i] = "\r" /\ i < Len(s) /\ s[i + 1] = "\n" THEN i + 2 ELSE i + 1
  IN  IF i = 0
      THEN (IF start <= Len(s) THEN << SubSeq(s, start, Len(s)) >> ELSE << >>)
      ELSE << SubSeq(s, start, i - 1) >> \o SplitLinesFrom(s, nxt)

\* str.splitlines()
SplitLines(s) == SplitLinesFrom(s, 1)

\* [v.strip() for v in val.split(',') if v.strip()]
RECURSIVE StripNonEmpty(_)
StripNonEmpty(parts) ==
  IF Len(parts) = 0 THEN << >>
  ELSE LET v == Strip(Head(parts))
       IN  (IF Len(v) > 0 THEN << v >> ELSE << >>) \o StripNonEmpty(Tail(parts))

CommaList(val) == StripNonEmpty(Split(val, << "," >>))

(***************************************************************************)
(* Literals of the outline format                                          *)
(***************************************************************************)
NL == << "\n" >>
CommaSp == << ",", " " >>
TwoSp == << " ", " " >>
SheetPrefix == << "#", " ", "S", "h", "e", "e", "t", ":" >>
RootPrefix == << "#", "#", " " >>
SepPart == << "\n", "-", "-", "-", "\n" >>
BulletPrefix == << "-", " " >>
QuotePrefix == << ">", " " >>
KeyLabels == << "l", "a", "b", "e", "l", "s" >>
KeyLink == << "l", "i", "n", "k" >>
KeyMarkers == << "m", "a", "r", "k", "e", "r", "s" >>
MetaLabels == << "L", "a", "b", "e", "l", "s", ":" >>
MetaLink == << "L", "i", "n", "k", ":" >>
MetaMarkers == << "M", "a", "r", "k", "e", "r", "s", ":" >>
DefaultSheetTitle == << "S", "h", "e", "e", "t", " ", "1" >>

(***************************************************************************)
(* Document model                                                          *)
(***************************************************************************)

\* Topic.__init__ with the fields filled in; children is a sequence of Topics
Topic(id, title, children, notes, labels, link, markers) ==
  [id |-> id, title |-> title, children |-> children, notes |-> notes,
   labels |-> labels, link |-> link, markers |-> markers]

\* Sheet.__init__; root_topic is << >> (None) or << topic >>
Sheet(id, title, root) == [id |-> id, title |-> title, root_topic |-> root]

\* uuid.uuid4().hex[:26]: an opaque identifier made up at construction
GenId == << "g" >>

(***************************************************************************)
(* Document model -> outline text                                          *)
(***************************************************************************)

RECURSIVE Indent(_)
Indent(depth) == IF depth = 0 THEN << >> ELSE TwoSp \o Indent(depth - 1)

\* one "> <line>" entry per line of the notes, each behind the given indent
RECURSIVE QuoteLines(_, _)
QuoteLines(ind, nls) ==
  IF Len(nls) = 0 THEN << >>
  ELSE << ind \o QuotePrefix \o Head(nls) >> \o QuoteLines(ind, Tail(nls))

FormatMetaBlock(topic) ==
  LET lines ==
        (IF Len(topic.labels) > 0
         THEN << QuotePrefix \o MetaLabels \o << " " >> \o Join(topic.labels, CommaSp) >>
         ELSE << >>)
        \o (IF Len(topic.link) > 0
            THEN << QuotePrefix \o MetaLink \o << " " >> \o topic.link >>
            ELSE << >>)
        \o (IF Len(topic.markers) > 0
            THEN << QuotePrefix \o MetaMarkers \o << " " >> \o Join(topic.markers, CommaSp) >>
            ELSE << >>)
        \o (IF Len(topic.notes) > 0
            THEN QuoteLines(<< >>, SplitLines(topic.notes))
            ELSE << >>)
  IN  Join(lines, NL)

\* '{key: ' + value + '}'
InlineTag(key, value) == << "{" >> \o key \o << ":", " " >> \o value \o << "}" >>

InlineTags(topic) ==
  (IF Len(topic.labels) > 0
   THEN << InlineTag(KeyLabels, Join(topic.labels, CommaSp)) >> ELSE << >>)
  \o (IF Len(topic.link) > 0
      THEN << InlineTag(KeyLink, topic.link) >> ELSE << >>)
  \o (IF Len(topic.markers) > 0
      THEN << InlineTag(KeyMarkers, Join(topic.markers, CommaSp)) >> ELSE << >>)

TitleLine(topic, depth) ==
  LET inline == InlineTags(topic)
      base == Indent(depth) \o BulletPrefix \o topic.title
  IN  IF Len(inline) > 0 THEN base \o TwoSp \o Join(inline, TwoSp) ELSE base

RECURSIVE TopicToMd(_, _)
RECURSIVE ChildrenToMd(_, _)
ChildrenToMd(children, depth) ==
  IF Len(children) = 0 THEN << >>
  ELSE << TopicToMd(Head(children), depth) >> \o ChildrenToMd(Tail(children), depth)

TopicToMd(topic, depth) ==
  LET lines ==
        << TitleLine(topic, depth) >>
        \o (IF Len(topic.notes) > 0
            THEN QuoteLines(Indent(depth) \o TwoSp, SplitLines(topic.notes))
            ELSE << >>)
        \o ChildrenToMd(topic.children, depth + 1)
  IN  Join(lines, NL)

\* sheets_to_markdown putting the separator before the first sheet too
SheetPartsSepAlways(sheet, i) ==
  << SepPart >>
  \o << SheetPrefix \o << " " >> \o sheet.title \o NL >>
  \o (IF Len(sheet.root_topic) > 0
      THEN LET root == sheet.root_topic[1]
               meta == FormatMetaBlock(root)
           IN  << NL \o RootPrefix \o root.title \o NL >>
               \o (IF Len(meta) > 0 THEN << meta >> ELSE << >>)
               \o << << >> >>
               \o ChildrenToMd(root.children, 0)
      ELSE << >>)

\* the entries one sheet appends to parts
SheetParts(sheet, i) ==
  (IF i > 1 THEN << SepPart >> ELSE << >>)
  \o << SheetPrefix \o << " " >> \o sheet.title \o NL >>
  \o (IF Len(sheet.root_topic) > 0
      THEN LET root == sheet.root_topic[1]
               meta == FormatMetaBlock(root)
           IN  << NL \o RootPrefix \o root.title \o NL >>
               \o (IF Len(meta) > 0 THEN << meta >> ELSE << >>)
               \o << << >> >>
               \o ChildrenToMd(root.children, 0)
      ELSE << >>)

RECURSIVE AllSheetParts(_, _)
AllSheetParts(sheets, i) ==
  IF i > Len(sheets) THEN << >>
  ELSE SheetParts(sheets[i], i) \o AllSheetParts(sheets, i + 1)

SheetsToMarkdown(sheets) == Join(AllSheetParts(sheets, 1), NL)

(***************************************************************************)
(* Outline text -> document model                                          *)
(***************************************************************************)

\* re.search(r'\{key:\s*([^}]+)\}', s) tried at position p: the text after
\* '{key:' up to the first '}' must be non-empty and be closed by a '}'
RECURSIVE RunNotBrace(_, _)
RunNotBrace(s, i) == IF i <= Len(s) /\ s[i] # "}" THEN 1 + RunNotBrace(s, i + 1) ELSE 0

TagAt(s, key, p) ==
  LET open == << "{" >> \o key \o << ":" >>
      from == p + Len(open)
      run  == RunNotBrace(s, from)
  IN  IF p + Len(open) - 1 <= Len(s) /\ SubSeq(s, p, p + Len(open) - 1) = open
         /\ run >= 1 /\ from + run <= Len(s)
      THEN [found |-> TRUE, start |-> p, end |-> from + run,
            val |-> Strip(SubSeq(s, from, from + run - 1))]
      ELSE [found |-> FALSE, start |-> 0, end |-> 0, val |-> << >>]

RECURSIVE SearchTag(_, _, _)
SearchTag(s, key, p) ==
  IF p > Len(s) THEN [found |-> FALSE, start |-> 0, end |-> 0, val |-> << >>]
  ELSE IF TagAt(s, key, p).found THEN TagAt(s, key, p)
  ELSE SearchTag(s, key, p + 1)

\* remaining[:match.start()] + remaining[match.end():]
CutTag(s, m) == IF m.found THEN SubSeq(s, 1, m.start - 1) \o Drop(s, m.end) ELSE s

ParseTitleMeta(raw) ==
  LET m1 == SearchTag(raw, KeyLabels, 1)
      r1 == CutTag(raw, m1)
      m2 == SearchTag(r1, KeyLink, 1)
      r2 == CutTag(r1, m2)
      m3 == SearchTag(r2, KeyMarkers, 1)
      r3 == CutTag(r2, m3)
  IN  Topic(GenId, Strip(r3), << >>, << >>,
            IF m1.found THEN CommaList(m1.val) ELSE << >>,
            IF m2.found THEN m2.val ELSE << >>,
            IF m3.found THEN CommaList(m3.val) ELSE << >>)

\* re.match(r'^(\s*)- ', line)
IsBullet(line) == StartsWith(Drop(line, LeadWS(line)), BulletPrefix)

\* re.match(r'^(\s*)- (.+)$', line)
IsItem(line) == IsBullet(line) /\ Len(line) > LeadWS(line) + 2

\* re.match(r'^(\s*)> (.*)$', line)
IsQuote(line) == StartsWith(Drop(line, LeadWS(line)), QuotePrefix)

RECURSIVE Spaces(_)
Spaces(n) == IF n = 0 THEN << >> ELSE << " " >> \o Spaces(n - 1)

\* the inner while loop of _parse_md_items: the lines that belong to the item
\* opened at cur_indent; idx is left on the line that ends the item
RECURSIVE ScanItem(_, _, _, _, _)
ScanItem(lines, idx, cur_indent, child_lines, note_lines) ==
  LET stop == [idx |-> idx, child_lines |-> child_lines, note_lines |-> note_lines]
  IN
  IF idx > Len(lines) THEN stop
  ELSE
    LET nxt == lines[idx]
        ind == LeadWS(nxt)
        asChild == ScanItem(lines, idx + 1, cur_indent, Append(child_lines, nxt), note_lines)
    IN  IF Len(Strip(nxt)) = 0
        THEN ScanItem(lines, idx + 1, cur_indent, child_lines, note_lines)
        ELSE IF IsBullet(nxt)
        THEN (IF ind > cur_indent THEN asChild ELSE stop)
        ELSE IF IsQuote(nxt)
        THEN (IF Len(child_lines) = 0 /\ ind = cur_indent + 2
              THEN ScanItem(lines, idx + 1, cur_indent, child_lines,
                            Append(note_lines, Drop(nxt, ind + 2)))
              ELSE IF ind > cur_indent THEN asChild
              ELSE stop)
        ELSE IF StartsWith(nxt, Spaces(cur_indent + 2)) THEN asChild
        ELSE stop

RECURSIVE ParseMdItems(_)
RECURSIVE ItemsFrom(_, _)
ItemsFrom(lines, idx) ==
  IF idx > Len(lines) THEN << >>
  ELSE IF ~IsItem(lines[idx]) THEN ItemsFrom(lines, idx + 1)
  ELSE
    LET line == lines[idx]
        cur_indent == LeadWS(line)
        t0 == ParseTitleMeta(Drop(line, cur_indent + 2))
        r  == ScanItem(lines, idx + 1, cur_indent, << >>, << >>)
        topic == [t0 EXCEPT !.notes = Join(r.note_lines, NL),
                            !.children = ParseMdItems(r.child_lines)]
    IN  << topic >> \o ItemsFrom(lines, r.idx)

ParseMdItems(lines) == ItemsFrom(lines, 1)

\* re.sub(r'^>\s*', '', line)
UnQuote(line) == IF StartsWith(line, << ">" >>) THEN LStrip(Tail(line)) ELSE line

RECURSIVE ApplyBlockMetaFrom(_, _, _, _)
ApplyBlockMetaFrom(topic, meta_lines, i, note_parts) ==
  IF i > Len(meta_lines)
  THEN (IF Len(note_parts) > 0 THEN [topic EXCEPT !.notes = Join(note_parts, NL)] ELSE topic)
  ELSE
    LET text == UnQuote(meta_lines[i])
    IN  IF StartsWith(text, MetaLabels)
        THEN ApplyBlockMetaFrom([topic EXCEPT !.labels = CommaList(Drop(text, 7))],
                                meta_lines, i + 1, note_parts)
        ELSE IF StartsWith(text, MetaLink)
        THEN ApplyBlockMetaFrom([topic EXCEPT !.link = Strip(Drop(text, 5))],
                                meta_lines, i + 1, note_parts)
        ELSE IF StartsWith(text, MetaMarkers)
        THEN ApplyBlockMetaFrom([topic EXCEPT !.markers = CommaList(Drop(text, 8))],
                                meta_lines, i + 1, note_parts)
        ELSE ApplyBlockMetaFrom(topic, meta_lines, i + 1, Append(note_parts, text))

ApplyBlockMeta(topic, meta_lines) == ApplyBlockMetaFrom(topic, meta_lines, 1, << >>)

\* one iteration of the line loop of _parse_sheet_block
SheetLineStep(st, line) ==
  LET stripped == Strip(line)
  IN  IF Len(stripped) = 0
      THEN (IF st.phase = "body" THEN [st EXCEPT !.body_lines = Append(@, line)] ELSE st)
      ELSE IF st.phase = "init" /\ StartsWith(stripped, SheetPrefix)
      THEN [st EXCEPT !.sheet_title = Strip(Drop(stripped, Len(SheetPrefix))),
                      !.phase = "after_sheet"]
      ELSE IF st.phase \in {"init", "after_sheet"} /\ StartsWith(stripped, RootPrefix)
      THEN [st EXCEPT !.root_title = Strip(Drop(stripped, 3)), !.phase = "root_meta"]
      ELSE IF st.phase = "root_meta" /\ StartsWith(stripped, << ">" >>)
      THEN [st EXCEPT !.root_meta = Append(@, stripped)]
      ELSE [st EXCEPT !.phase = "body", !.body_lines = Append(@, line)]

RECURSIVE SheetLines(_, _, _)
SheetLines(st, lines, i) ==
  IF i > Len(lines) THEN st ELSE SheetLines(SheetLineStep(st, lines[i]), lines, i + 1)

\* the sheet of one block: << >> for None, else << sheet >>
ParseSheetBlock(block) ==
  LET st0 == [phase |-> "init", sheet_title |-> DefaultSheetTitle, root_title |-> << >>,
              root_meta |-> << >>, body_lines |-> << >>]
      st  == SheetLines(st0, Split(block, NL), 1)
  IN  IF Len(st.root_title) = 0 /\ Len(st.body_lines) = 0 THEN << >>
      ELSE
        LET root0 == ApplyBlockMeta(
                       Topic(GenId, st.root_title, << >>, << >>, << >>, << >>, << >>),
                       st.root_meta)
            root  == IF Len(st.body_lines) > 0
                     THEN [root0 EXCEPT !.children = ParseMdItems(st.body_lines)]
                     ELSE root0
        IN  << Sheet(GenId, st.sheet_title, << root >>) >>

RECURSIVE SheetsOfBlocks(_)
SheetsOfBlocks(blocks) ==
  IF Len(blocks) = 0 THEN << >>
  ELSE ParseSheetBlock(Strip(Head(blocks))) \o SheetsOfBlocks(Tail(blocks))

MarkdownToSheets(md_text) == SheetsOfBlocks(Split(md_text, SepPart))

(***************************************************************************)
(* JSON values (what json.loads returns and json.dumps takes) and the zen  *)
(* package codec.  An object is a function from its keys to values.        *)
(***************************************************************************)
JStr(s) == [t |-> "str", str |-> s]
JArr(a) == [t |-> "arr", arr |-> a]
JObj(f) == [t |-> "obj", obj |-> f]
JNull == [t |-> "null"]
JNum(n) == [t |-> "num", num |-> n]

\* the object with no keys
NoKeys == [k \in {} |-> JNull]

\* dict.get(key, default) on a JSON object
Get(obj, key, default) == IF key \in DOMAIN obj.obj THEN obj.obj[key] ELSE default

\* topic_id or uuid.uuid4().hex[:26]
IdOr(id) == IF Len(id) > 0 THEN id ELSE GenId

RECURSIVE MapSeq(_, _)
MapSeq(Op(_), seq) ==
  IF Len(seq) = 0 THEN << >> ELSE << Op(Head(seq)) >> \o MapSeq(Op, Tail(seq))

\* the marker object written under another key than the parser reads
MarkerObjWrongKey(m) == JObj("id" :> JStr(m))

MarkerObj(m) == JObj("markerId" :> JStr(m))

RECURSIVE TopicToZenDict(_)
TopicToZenDict(topic) ==
  JObj(("id" :> JStr(topic.id)) @@ ("class" :> JStr(<< "t", "o", "p", "i", "c" >>))
       @@ ("title" :> JStr(topic.title))
       @@ (IF Len(topic.notes) > 0
           THEN "notes" :> JObj("plain" :> JObj("content" :> JStr(topic.notes)))
           ELSE NoKeys)
       @@ (IF Len(topic.labels) > 0
           THEN "labels" :> JArr(MapSeq(JStr, topic.labels)) ELSE NoKeys)
       @@ (IF Len(topic.link) > 0 THEN "href" :> JStr(topic.link) ELSE NoKeys)
       @@ (IF Len(topic.markers) > 0
           THEN "markers" :> JArr(MapSeq(MarkerObj, topic.markers)) ELSE NoKeys)
       @@ (IF Len(topic.children) > 0
           THEN "children" :> JObj("attached" :> JArr(MapSeq(TopicToZenDict, topic.children)))
           ELSE NoKeys))

SheetToZenDict(sheet) ==
  JObj(("id" :> JStr(sheet.id)) @@ ("class" :> JStr(<< "s", "h", "e", "e", "t" >>))
       @@ ("title" :> JStr(sheet.title))
       @@ (IF Len(sheet.root_topic) > 0
           THEN "rootTopic" :> TopicToZenDict(sheet.root_topic[1]) ELSE NoKeys))

ZenMetadata ==
  JObj("creator" :> JObj(("name" :> JStr(<< "x", "m", "i", "n", "d", "-", "t", "o", "o", "l" >>))
                         @@ ("version" :> JStr(<< "1", ".", "0", ".", "0" >>))))

\* the archive create_zen writes: entry name -> entry content
CreateZen(sheets) ==
  ("content.json" :> JArr(MapSeq(SheetToZenDict, sheets)))
  @@ ("metadata.json" :> ZenMetadata)

\* ''.join(op.get('insert', '') for op in ops if isinstance(op, dict))
RECURSIVE JoinInserts(_)
JoinInserts(ops) ==
  IF Len(ops) = 0 THEN << >>
  ELSE (IF Head(ops).t = "obj" THEN Get(Head(ops), "insert", JStr(<< >>)).str ELSE << >>)
       \o JoinInserts(Tail(ops))

\* the notes block of _parse_zen_topic; ok is FALSE where the code raises
ZenNotes(data) ==
  LET notes_data == Get(data, "notes", JObj(NoKeys))
      none == [ok |-> TRUE, notes |-> << >>]
  IN  IF notes_data.t # "obj" THEN none
      ELSE IF "plain" \in DOMAIN notes_data.obj
      THEN (IF notes_data.obj["plain"].t = "obj"
            THEN [ok |-> TRUE, notes |-> Get(notes_data.obj["plain"], "content", JStr(<< >>)).str]
            ELSE [ok |-> FALSE, notes |-> << >>])
      ELSE IF "ops" \in DOMAIN notes_data.obj
      THEN LET ops0 == notes_data.obj["ops"]
               ops  == IF ops0.t = "obj" THEN Get(ops0, "ops", JArr(<< >>)) ELSE ops0
           IN  IF ops.t = "arr"
               THEN (IF \A i \in 1..Len(ops.arr) :
                          ops.arr[i].t = "obj" => Get(ops.arr[i], "insert", JStr(<< >>)).t = "str"
                     THEN [ok |-> TRUE, notes |-> Strip(JoinInserts(ops.arr))]
                     ELSE [ok |-> FALSE, notes |-> << >>])
               \* a string yields its characters and an object its keys: none is a dict
               ELSE IF ops.t \in {"str", "obj"} THEN none
               ELSE [ok |-> FALSE, notes |-> << >>]
      ELSE none

StrOf(j) == j.str

\* m.get('markerId', '') for m in markers if isinstance(m, dict) and m.get('markerId')
RECURSIVE ZenMarkers(_)
ZenMarkers(ms) ==
  IF Len(ms) = 0 THEN << >>
  ELSE (IF Head(ms).t = "obj" /\ Len(Get(Head(ms), "markerId", JStr(<< >>)).str) > 0
        THEN << Get(Head(ms), "markerId", JStr(<< >>)).str >> ELSE << >>)
       \o ZenMarkers(Tail(ms))

RECURSIVE AllOk(_)
AllOk(rs) == IF Len(rs) = 0 THEN TRUE ELSE Head(rs).ok /\ AllOk(Tail(rs))

TopicOf(r) == r.topic

\* [ok, topic]: ok is FALSE where the code raises on this node or below it
RECURSIVE ParseZenTopic(_)
ParseZenTopic(data) ==
  LET n    == ZenNotes(data)
      kids == MapSeq(ParseZenTopic,
                     Get(Get(data, "children", JObj(NoKeys)), "attached", JArr(<< >>)).arr)
  IN  [ok |-> n.ok /\ AllOk(kids),
       topic |-> Topic(IdOr(Get(data, "id", JStr(<< >>)).str),
                       Get(data, "title", JStr(<< >>)).str,
                       MapSeq(TopicOf, kids),
                       n.notes,
                       MapSeq(StrOf, Get(data, "labels", JArr(<< >>)).arr),
                       Get(data, "href", JStr(<< >>)).str,
                       ZenMarkers(Get(data, "markers", JArr(<< >>)).arr))]

ParseZenSheet(sheet_data) ==
  LET r == IF "rootTopic" \in DOMAIN sheet_data.obj
           THEN << ParseZenTopic(sheet_data.obj["rootTopic"]) >> ELSE << >>
  IN  [ok |-> AllOk(r),
       sheet |-> Sheet(IdOr(Get(sheet_data, "id", JStr(<< >>)).str),
                       Get(sheet_data, "title", JStr(DefaultSheetTitle)).str,
                       MapSeq(TopicOf, r))]

SheetOf(r) == r.sheet

\* [ok, sheets] of the archive's content.json
ParseZen(archive) ==
  LET rs == MapSeq(ParseZenSheet, archive["content.json"].arr)
  IN  [ok |-> AllOk(rs), sheets |-> MapSeq(SheetOf, rs)]

(***************************************************************************)
(* XML elements (xml.etree.ElementTree) and the legacy package codec.      *)
(* Tags are written with the prefix c: for the content namespace, as the   *)
(* parser's find('c:...') names them.                                      *)
(***************************************************************************)
Elem(tag, attrib, text, kids) == [tag |-> tag, attrib |-> attrib, text |-> text, kids |-> kids]

NoAttrib == [k \in {} |-> << >>]

\* str(int(time.time() * 1000)): whatever the clock says at encode time
TimeStamp == << "t", "s" >>

RECURSIVE TopicToLegacyXml(_)
TopicToLegacyXml(topic) ==
  Elem("c:topic",
       ("id" :> topic.id) @@ ("timestamp" :> TimeStamp)
       @@ (IF Len(topic.link) > 0 THEN "xlink:href" :> topic.link ELSE NoAttrib),
       << >>,
       << Elem("c:title", NoAttrib, topic.title, << >>) >>
       \o (IF Len(topic.notes) > 0
           THEN << Elem("c:notes", NoAttrib, << >>,
                        << Elem("c:plain", NoAttrib, topic.notes, << >>) >>) >>
           ELSE << >>)
       \o (IF Len(topic.labels) > 0
           THEN << Elem("c:labels", NoAttrib, << >>,
                        [i \in 1..Len(topic.labels) |->
                           Elem("c:label", NoAttrib, topic.labels[i], << >>)]) >>
           ELSE << >>)
       \o (IF Len(topic.markers) > 0
           THEN << Elem("c:marker-refs", NoAttrib, << >>,
                        [i \in 1..Len(topic.markers) |->
                           Elem("c:marker-ref", "marker-id" :> topic.markers[i],
                                << >>, << >>)]) >>
           ELSE << >>)
       \o (IF Len(topic.children) > 0
           THEN << Elem("c:children", NoAttrib, << >>,
                        << Elem("c:topics", "type" :> << "a", "t", "t", "a", "c", "h", "e", "d" >>,
                                << >>, MapSeq(TopicToLegacyXml, topic.children)) >>) >>
           ELSE << >>))

SheetToLegacyXml(sheet) ==
  Elem("c:sheet", ("id" :> sheet.id) @@ ("timestamp" :> TimeStamp), << >>,
       (IF Len(sheet.root_topic) > 0
        THEN << TopicToLegacyXml(sheet.root_topic[1]) >> ELSE << >>)
       \o << Elem("c:title", NoAttrib, sheet.title, << >>) >>)

LegacyManifest == << "content.xml", "META-INF/", "META-INF/manifest.xml" >>

\* the archive create_legacy writes: entry name -> entry content
CreateLegacy(sheets) ==
  ("content.xml" :> Elem("c:xmap-content", "version" :> << "2", ".", "0" >>, << >>,
                         MapSeq(SheetToLegacyXml, sheets)))
  @@ ("META-INF/manifest.xml" :> LegacyManifest)

\* an XML parser reads every line end in character data (\r\n or \r) as \n
RECURSIVE XmlText(_)
XmlText(s) ==
  IF Len(s) = 0 THEN << >>
  ELSE IF Head(s) = "\r"
       THEN << "\n" >> \o XmlText(IF Len(s) > 1 /\ s[2] = "\n" THEN Drop(s, 2) ELSE Tail(s))
       ELSE << Head(s) >> \o XmlText(Tail(s))

\* elem.findall(tag): the direct children with that tag, in document order
RECURSIVE FindAll(_, _)
FindAll(kids, tag) ==
  IF Len(kids) = 0 THEN << >>
  ELSE (IF Head(kids).tag = tag THEN << Head(kids) >> ELSE << >>) \o FindAll(Tail(kids), tag)

\* elem.find(tag): << >> for None, else << first match >>
Find(elem, tag) ==
  LET all == FindAll(elem.kids, tag) IN IF Len(all) = 0 THEN << >> ELSE << all[1] >>

\* x.text if x is not None and x.text else default
TextOr(found, default) ==
  IF Len(found) > 0 /\ Len(found[1].text) > 0 THEN XmlText(found[1].text) ELSE default

\* elem.get(key, '')
Attr(elem, key) == IF key \in DOMAIN elem.attrib THEN elem.attrib[key] ELSE << >>

\* the texts of the given elements, the empty ones skipped
RECURSIVE NonEmptyTexts(_)
NonEmptyTexts(es) ==
  IF Len(es) = 0 THEN << >>
  ELSE (IF Len(Head(es).text) > 0 THEN << XmlText(Head(es).text) >> ELSE << >>)
       \o NonEmptyTexts(Tail(es))

RECURSIVE NonEmptyAttrs(_, _)
NonEmptyAttrs(es, key) ==
  IF Len(es) = 0 THEN << >>
  ELSE (IF Len(Attr(Head(es), key)) > 0 THEN << Attr(Head(es), key) >> ELSE << >>)
       \o NonEmptyAttrs(Tail(es), key)

\* the <topic> elements under every <topics type="attached"> of <children>
RECURSIVE AttachedTopics(_)
AttachedTopics(topics_elems) ==
  IF Len(topics_elems) = 0 THEN << >>
  ELSE (IF Attr(Head(topics_elems), "type") = << "a", "t", "t", "a", "c", "h", "e", "d" >>
        THEN FindAll(Head(topics_elems).kids, "c:topic") ELSE << >>)
       \o AttachedTopics(Tail(topics_elems))

RECURSIVE ParseLegacyTopic(_)
ParseLegacyTopic(elem) ==
  LET notes_elem == Find(elem, "c:notes")
      labels_elem == Find(elem, "c:labels")
      mrefs == Find(elem, "c:marker-refs")
      children_elem == Find(elem, "c:children")
  IN  Topic(IdOr(Attr(elem, "id")),
            TextOr(Find(elem, "c:title"), << >>),
            IF Len(children_elem) > 0
            THEN MapSeq(ParseLegacyTopic,
                        AttachedTopics(FindAll(children_elem[1].kids, "c:topics")))
            ELSE << >>,
            IF Len(notes_elem) > 0
            THEN TextOr(Find(notes_elem[1], "c:plain"), << >>) ELSE << >>,
            IF Len(labels_elem) > 0
            THEN NonEmptyTexts(FindAll(labels_elem[1].kids, "c:label")) ELSE << >>,
            Attr(elem, "xlink:href"),
            IF Len(mrefs) > 0
            THEN NonEmptyAttrs(FindAll(mrefs[1].kids, "c:marker-ref"), "marker-id")
            ELSE << >>)

ParseLegacySheet(sheet_elem) ==
  Sheet(IdOr(Attr(sheet_elem, "id")),
        TextOr(Find(sheet_elem, "c:title"), DefaultSheetTitle),
        MapSeq(ParseLegacyTopic, Find(sheet_elem, "c:topic")))

\* the sheets of the archive's content.xml
ParseLegacy(archive) ==
  MapSeq(ParseLegacySheet, FindAll(archive["content.xml"].kids, "c:sheet"))

(***************************************************************************)
(* Format detection                                                        *)
(***************************************************************************)

\* detect_format with the two tests in the other order
DetectFormatXmlFirst(archive) ==
  LET names == DOMAIN archive
  IN  IF "content.xml" \in names THEN [ok |-> TRUE, fmt |-> "legacy", names |-> names]
      ELSE IF "content.json" \in names THEN [ok |-> TRUE, fmt |-> "zen", names |-> names]
      ELSE [ok |-> FALSE, fmt |-> "none", names |-> names]

\* [ok, fmt, names]: ok is FALSE for the ValueError, whose message carries names
DetectFormat(archive) ==
  LET names == DOMAIN archive
  IN  IF "content.json" \in names THEN [ok |-> TRUE, fmt |-> "zen", names |-> names]
      ELSE IF "content.xml" \in names THEN [ok |-> TRUE, fmt |-> "legacy", names |-> names]
      ELSE [ok |-> FALSE, fmt |-> "none", names |-> names]

(***************************************************************************)
(* Bounded inputs                                                          *)
(***************************************************************************)
MaxSheets == 2
MaxKids == 2

\* the contiguous runs of at most max elements of pool, the empty one included
Windows(pool, max) ==
  {SubSeq(pool, w[1], w[1] + w[2] - 1) :
     w \in {x \in (1..Len(pool)) \X (0..max) : x[1] + x[2] - 1 <= Len(pool)}}

GrandKid == Topic(<< "5" >>, << "g" >>, << >>, << "r" >>, << >>, << >>, << >>)

\* second-level topics, each with a different mix of notes, tags and children
KidPool ==
  << Topic(<< "1" >>, << "a" >>, << >>, << "n" >>, << << "x" >>, << "y" >> >>, << >>, << >>),
     Topic(<< "2" >>, << "b" >>, << GrandKid >>, << >>, << >>, << >>, << >>),
     Topic(<< "3" >>, << "c", " ", "d" >>, << >>, << "p", "\n", "q" >>, << >>,
           << "u" >>, << << "m" >> >>),
     Topic(<< "4" >>, << "e" >>, << GrandKid >>, << "n" >>, << >>, << >>, << >>) >>

RootTitles == {<< "R" >>, << >>}

\* [notes, labels, link, markers] of a root topic
RootMetas ==
  {[notes |-> << >>, labels |-> << >>, link |-> << >>, markers |-> << >>],
   [notes |-> << "n" >>, labels |-> << << "x" >>, << "y" >> >>, link |-> << >>,
    markers |-> << >>],
   [notes |-> << "p", "\n", "q" >>, labels |-> << >>, link |-> << "u" >>,
    markers |-> << << "m" >> >>]}

Roots ==
  {Topic(<< "0" >>, title, kids, m.notes, m.labels, m.link, m.markers) :
     title \in RootTitles, kids \in Windows(KidPool, MaxKids), m \in RootMetas}

SheetTitles == {<< "S" >>, << >>}

FirstSheets ==
  {Sheet(<< "s" >>, title, root) :
     title \in SheetTitles, root \in {<< >>} \cup {<< r >> : r \in Roots}}

\* the sheets that follow the first one
SheetPool ==
  << Sheet(<< "t" >>, << "T" >>, << >>),
     Sheet(<< "u" >>, << "U" >>,
           << Topic(<< "6" >>, << "Q" >>, << KidPool[1] >>, << >>, << >>, << >>, << >>) >>),
     Sheet(<< "v" >>, << >>,
           << Topic(<< "7" >>, << "Q" >>, << >>, << >>, << >>, << >>, << >>) >>) >>

\* documents: no sheet, or a first sheet followed by a run of SheetPool
Docs ==
  {<< >>} \cup {<< f >> \o rest : f \in FirstSheets, rest \in Windows(SheetPool, MaxSheets - 1)}

\* the scenario text of the specification
CanonText ==
  << "#", " ", "S", "h", "e", "e", "t", ":", " ", "S", "\n", "\n", "#", "#", " ",
     "R", "o", "o", "t", "\n", "\n", "-", " ", "C", "h", "i", "l", "d", " ", "A",
     " ", " ", "{", "l", "a", "b", "e", "l", "s", ":", " ", "x", ",", " ", "y", "}",
     "\n", " ", " ", ">", " ", "a", " ", "n", "o", "t", "e", "\n", "-", " ", "C",
     "h", "i", "l", "d", " ", "B", "\n" >>

\* a hand-written outline of two sheets
TwoSheetText ==
  << "#", " ", "S", "h", "e", "e", "t", ":", " ", "A", "\n", "\n", "#", "#", " ",
     "R", "\n", "\n", "-", " ", "a", "\n", "\n", "-", "-", "-", "\n", "\n", "#", " ",
     "S", "h", "e", "e", "t", ":", " ", "B", "\n", "\n", "#", "#", " ", "Q", "\n" >>

Texts == {CanonText, TwoSheetText, << >>}

(***************************************************************************)
(* State                                                                   *)
(***************************************************************************)
VARIABLES
  src,      \* codec run: "doc" when it starts from a document, "text" from a text
  stage,    \* codec run: what has been computed so far
  doc,      \* codec run: the document given
  md,       \* codec run: the outline text given or encoded
  parsed,   \* codec run: the sheets decoded from md or from pkg
  md2,      \* codec run: the outline text of parsed
  pkg,      \* codec run: the archive written by create_zen / create_legacy
  xmind,    \* the package file at xmind_path: [exists, archive]
  mdfile,   \* the text file at md_path: [exists, readable, text]
  memory,   \* the session memory file of the package: [exists, text]
  pc,       \* "idle" between commands, else the step update_xmind is at
  fmt,      \* update_xmind: fmt
  md_text,  \* cmd_create / update_xmind: md_text
  sheets,   \* cmd_create / update_xmind: sheets
  exit,     \* how the last command ended: "ok" (0), "error" (1), "raised"
  err,      \* what the last command reported: [kind, names]
  last,     \* the last command started
  before,   \* the package file as the last create or update found it
  variant0, \* the variant found by the first update since the package was made
  item_lines, \* parser run: the lines given to _parse_md_items
  scan,       \* parser run: idx, child_lines, note_lines when the first item ends
  items,      \* parser run: what _parse_md_items returns
  topic_data, \* parser run: the object given to _parse_zen_topic
  zen_topic   \* parser run: [ok, topic] of _parse_zen_topic, ok FALSE if it raised

codecVars == << src, stage, doc, md, parsed, md2, pkg >>
cliVars == << xmind, mdfile, memory, pc, fmt, md_text, sheets, exit, err, last, before,
              variant0 >>
parseVars == << item_lines, scan, items, topic_data, zen_topic >>
vars == << codecVars, cliVars, parseVars >>

NoArchive == [k \in {} |-> << >>]

NoFile == [exists |-> FALSE, archive |-> NoArchive]
PackageFile(a) == [exists |-> TRUE, archive |-> a]

NoError == [kind |-> "none", names |-> {}]

\* no command has run: no package, no text file, no memory file
CliAtRest ==
  /\ xmind = NoFile
  /\ mdfile = [exists |-> FALSE, readable |-> FALSE, text |-> << >>]
  /\ memory = [exists |-> FALSE, text |-> << >>]
  /\ pc = "idle"
  /\ fmt = "none"
  /\ md_text = << >>
  /\ sheets = << >>
  /\ exit = "none"
  /\ err = NoError
  /\ last = "none"
  /\ before = NoFile
  /\ variant0 = "none"

\* no parser run is going on
ParseAtRest ==
  /\ item_lines = << >>
  /\ scan = [idx |-> 0, child_lines |-> << >>, note_lines |-> << >>]
  /\ items = << >>
  /\ topic_data = JNull
  /\ zen_topic = [ok |-> TRUE, topic |-> << >>]

\* no codec run is going on
CodecAtRest ==
  /\ src = "none"
  /\ stage = "none"
  /\ doc = << >>
  /\ md = << >>
  /\ parsed = << >>
  /\ md2 = << >>
  /\ pkg = NoArchive

(***************************************************************************)
(* The codecs applied to bounded inputs                                    *)
(***************************************************************************)
InitCodec ==
  /\ src \in {"doc", "text"}
  /\ IF src = "doc"
     THEN stage = "doc" /\ doc \in Docs /\ md = << >>
     ELSE stage = "md" /\ doc = << >> /\ md \in Texts
  /\ parsed = << >>
  /\ md2 = << >>
  /\ pkg = NoArchive
  /\ CliAtRest
  /\ ParseAtRest

Encode ==
  /\ stage = "doc"
  /\ md' = SheetsToMarkdown(doc)
  /\ stage' = "md"
  /\ UNCHANGED << src, doc, parsed, md2, pkg, cliVars, parseVars >>

Decode ==
  /\ stage = "md"
  /\ parsed' = MarkdownToSheets(md)
  /\ stage' = "parsed"
  /\ UNCHANGED << src, doc, md, md2, pkg, cliVars, parseVars >>

ReEncode ==
  /\ stage = "parsed"
  /\ md2' = SheetsToMarkdown(parsed)
  /\ stage' = "md2"
  /\ UNCHANGED << src, doc, md, parsed, pkg, cliVars, parseVars >>

ZenCreate ==
  /\ stage = "doc"
  /\ pkg' = CreateZen(doc)
  /\ stage' = "zen"
  /\ UNCHANGED << src, doc, md, parsed, md2, cliVars, parseVars >>

ZenParse ==
  /\ stage = "zen"
  /\ ParseZen(pkg).ok
  /\ parsed' = ParseZen(pkg).sheets
  /\ stage' = "zen_parsed"
  /\ UNCHANGED << src, doc, md, md2, pkg, cliVars, parseVars >>

LegacyCreate ==
  /\ stage = "doc"
  /\ pkg' = CreateLegacy(doc)
  /\ stage' = "legacy"
  /\ UNCHANGED << src, doc, md, parsed, md2, cliVars, parseVars >>

LegacyParse ==
  /\ stage = "legacy"
  /\ parsed' = ParseLegacy(pkg)
  /\ stage' = "legacy_parsed"
  /\ UNCHANGED << src, doc, md, md2, pkg, cliVars, parseVars >>

NextCodec ==
  \/ Encode
  \/ Decode
  \/ ReEncode
  \/ ZenCreate
  \/ ZenParse
  \/ LegacyCreate
  \/ LegacyParse

SpecCodec == InitCodec /\ [][NextCodec]_vars

(***************************************************************************)
(* The two parsers applied to bounded inputs of their own: the lines given *)
(* to _parse_md_items and the object given to _parse_zen_topic             *)
(***************************************************************************)
MaxTail == 3

\* the text of the line at position j: one letter, different on every line
Marks == << "a", "b", "c", "d", "e" >>

LineIndents == {0, 1, 2, 4}

\* a bullet, a quoted line or a plain line at the given indent
ItemLine(kind, indent, j) ==
  Spaces(indent)
  \o (CASE kind = "bullet" -> BulletPrefix
        [] kind = "quote" -> QuotePrefix
        [] OTHER -> << >>)
  \o << Marks[j] >>

\* what can stand at position j: any kind of line at any indent, or a blank line
LinesAt(j) ==
  {ItemLine(kind, indent, j) : kind \in {"bullet", "quote", "plain"}, indent \in LineIndents}
  \cup {<< >>}

RECURSIVE TailsFrom(_, _)
TailsFrom(j, n) ==
  IF n = 0 THEN {<< >>}
  ELSE {<< >>} \cup {<< l >> \o rest : l \in LinesAt(j), rest \in TailsFrom(j + 1, n - 1)}

\* a bullet at indent 0 or 2 followed by at most MaxTail lines
ItemLineLists ==
  {<< ItemLine("bullet", indent, 1) >> \o rest :
     indent \in {0, 2}, rest \in TailsFrom(2, MaxTail)}

Hello == << "h", "e", "l", "l", "o", " " >>
World == << "w", "o", "r", "l", "d" >>

\* the elements an ops list can hold: inserts, an op without insert, an
\* element that is no object, and inserts that are no strings
OpPool ==
  {JObj("insert" :> JStr(Hello)), JObj("insert" :> JStr(World)), JObj(NoKeys),
   JStr(<< "x" >>), JObj("insert" :> JNull), JObj("insert" :> JNum(5))}

OpsLists ==
  {<< >>} \cup {<< o >> : o \in OpPool}
  \cup {<< o1, o2 >> : o1 \in OpPool, o2 \in OpPool}

\* the values found under "ops"
OpsValues ==
  {JArr(l) : l \in OpsLists}
  \cup {JObj("ops" :> JArr(l)) : l \in OpsLists}
  \cup {JObj(NoKeys), JObj("ops" :> JNull), JObj("ops" :> JObj("a" :> JNum(1))),
        JNull, JNum(5), JStr(<< "a", "b" >>)}

\* the values found under "plain"; a content, where present, is a string
PlainValues ==
  {JObj("content" :> JStr(c)) : c \in {<< "h", "i" >>, << >>, << " ", "x", " " >>}}
  \cup {JObj(NoKeys), JStr(<< "t" >>), JNull, JArr(<< >>), JNum(5)}

\* the values found under "notes"
NotesValues ==
  {JNull, JNum(5), JStr(<< "t" >>), JArr(<< >>), JObj(NoKeys), JObj("html" :> JObj(NoKeys))}
  \cup {JObj("plain" :> p) : p \in PlainValues}
  \cup {JObj("ops" :> o) : o \in OpsValues}
  \cup {JObj(("plain" :> p) @@ ("ops" :> JArr(<< JObj("insert" :> JStr(World)) >>))) :
          p \in PlainValues}

\* a topic object with or without a notes field
TopicDatas ==
  {JObj(("id" :> JStr(<< "1" >>)) @@ ("title" :> JStr(<< "T" >>)))}
  \cup {JObj(("id" :> JStr(<< "1" >>)) @@ ("title" :> JStr(<< "T" >>)) @@ ("notes" :> n)) :
          n \in NotesValues}

InitParse ==
  /\ src \in {"lines", "data"}
  /\ IF src = "lines"
     THEN stage = "lines" /\ item_lines \in ItemLineLists /\ topic_data = JNull
     ELSE stage = "data" /\ item_lines = << >> /\ topic_data \in TopicDatas
  /\ scan = [idx |-> 0, child_lines |-> << >>, note_lines |-> << >>]
  /\ items = << >>
  /\ zen_topic = [ok |-> TRUE, topic |-> << >>]
  /\ doc = << >>
  /\ md = << >>
  /\ parsed = << >>
  /\ md2 = << >>
  /\ pkg = NoArchive
  /\ CliAtRest

\* _parse_md_items(item_lines); scan keeps what the inner loop holds when the
\* item opened by the first line ends
ParseItems ==
  /\ stage = "lines"
  /\ scan' = ScanItem(item_lines, 2, LeadWS(item_lines[1]), << >>, << >>)
  /\ items' = ParseMdItems(item_lines)
  /\ stage' = "items"
  /\ UNCHANGED << src, doc, md, parsed, md2, pkg, cliVars, item_lines, topic_data,
                  zen_topic >>

\* _parse_zen_topic(topic_data)
ParseTopic ==
  /\ stage = "data"
  /\ zen_topic' = ParseZenTopic(topic_data)
  /\ stage' = IF ParseZenTopic(topic_data).ok THEN "topic" ELSE "raised"
  /\ UNCHANGED << src, doc, md, parsed, md2, pkg, cliVars, item_lines, scan, items,
                  topic_data >>

NextParse ==
  \/ ParseItems
  \/ ParseTopic

SpecParse == InitParse /\ [][NextParse]_vars

(***************************************************************************)
(* The commands, run on one package file, one text file and one session    *)
(***************************************************************************)

\* the package an outside tool left at xmind_path
ForeignDoc ==
  << Sheet(<< "s" >>, << "S" >>,
           << Topic(<< "0" >>, << "R" >>, << KidPool[1] >>, << >>, << >>, << >>, << >>) >>) >>

EntryNames ==
  {"content.json", "content.xml", "metadata.json", "META-INF/manifest.xml",
   "Thumbnails/thumbnail.png"}

EntryContent(name) ==
  CASE name = "content.json" -> CreateZen(ForeignDoc)["content.json"]
    [] name = "content.xml" -> CreateLegacy(ForeignDoc)["content.xml"]
    [] name = "metadata.json" -> ZenMetadata
    [] name = "META-INF/manifest.xml" -> LegacyManifest
    [] OTHER -> << "p", "n", "g" >>

ForeignArchives == {[n \in names |-> EntryContent(n)] : names \in SUBSET EntryNames}

\* a sheet heading and nothing else: decodes to no sheet
HeadingOnlyText == SheetPrefix \o << " ", "S", "\n" >>

CliTexts == {<< >>, HeadingOnlyText, CanonText, TwoSheetText}

\* the text file: missing, not decodable as UTF-8, or holding one of the texts
MdFiles ==
  {[exists |-> FALSE, readable |-> FALSE, text |-> << >>],
   [exists |-> TRUE, readable |-> FALSE, text |-> << >>]}
  \cup {[exists |-> TRUE, readable |-> TRUE, text |-> t] : t \in CliTexts}

Init ==
  /\ CodecAtRest
  /\ ParseAtRest
  /\ xmind \in {NoFile} \cup {PackageFile(a) : a \in ForeignArchives}
  /\ mdfile \in MdFiles
  /\ memory = [exists |-> FALSE, text |-> << >>]
  /\ pc = "idle"
  /\ fmt = "none"
  /\ md_text = << >>
  /\ sheets = << >>
  /\ exit = "none"
  /\ err = NoError
  /\ last = "none"
  /\ before = xmind
  /\ variant0 = "none"

\* the user rewrites, breaks or removes the text file between two commands
EditMd ==
  /\ pc = "idle"
  /\ mdfile' \in MdFiles \ {mdfile}
  /\ UNCHANGED << xmind, memory, pc, fmt, md_text, sheets, exit, err, last, before,
                  variant0, codecVars, parseVars >>

\* an update that always writes the zen variant
CreateForAlwaysZen(f, shs) == CreateZen(shs)

\* create_zen or create_legacy, as the if/else on fmt picks
CreateFor(f, shs) == IF f = "zen" THEN CreateZen(shs) ELSE CreateLegacy(shs)

\* cmd_create with the default --format zen
CreateAs(f) == IF f = "legacy" THEN "legacy" ELSE "zen"

CmdParse ==
  /\ pc = "idle"
  /\ last' = "parse"
  /\ IF ~xmind.exists
     THEN /\ exit' = "error"
          /\ err' = [kind |-> "usage", names |-> {}]
          /\ UNCHANGED memory
     ELSE LET d == DetectFormat(xmind.archive)
              shs == IF d.fmt = "zen" THEN ParseZen(xmind.archive).sheets
                     ELSE ParseLegacy(xmind.archive)
          IN  IF ~d.ok
              THEN /\ exit' = "raised"
                   /\ err' = [kind |-> "format", names |-> d.names]
                   /\ UNCHANGED memory
              ELSE /\ memory' = [exists |-> TRUE, text |-> SheetsToMarkdown(shs)]
                   /\ exit' = "ok"
                   /\ err' = NoError
  /\ UNCHANGED << xmind, mdfile, pc, fmt, md_text, sheets, before, variant0, codecVars, parseVars >>

CmdCreate ==
  /\ pc = "idle"
  /\ \E f \in {"zen", "legacy"} :
       /\ last' = "create"
       /\ before' = xmind
       /\ IF ~mdfile.exists
          THEN /\ exit' = "error"
               /\ err' = [kind |-> "usage", names |-> {}]
               /\ UNCHANGED << xmind, memory, md_text, sheets, variant0 >>
          ELSE IF ~mdfile.readable
          THEN /\ exit' = "raised"
               /\ err' = [kind |-> "read", names |-> {}]
               /\ UNCHANGED << xmind, memory, md_text, sheets, variant0 >>
          ELSE LET shs == MarkdownToSheets(mdfile.text)
               IN  /\ md_text' = mdfile.text
                   /\ sheets' = shs
                   /\ IF Len(shs) = 0
                      THEN /\ exit' = "error"
                           /\ err' = [kind |-> "nosheets", names |-> {}]
                           /\ UNCHANGED << xmind, memory, variant0 >>
                      ELSE /\ xmind' = PackageFile(CreateFor(CreateAs(f), shs))
                           /\ memory' = [exists |-> TRUE, text |-> mdfile.text]
                           /\ variant0' = "none"
                           /\ exit' = "ok"
                           /\ err' = NoError
  /\ UNCHANGED << mdfile, pc, fmt, codecVars, parseVars >>

\* cmd_update up to its call of update_xmind
UpdateBegin ==
  /\ pc = "idle"
  /\ last' = "update"
  /\ before' = xmind
  /\ IF ~xmind.exists \/ ~mdfile.exists
     THEN /\ exit' = "error"
          /\ err' = [kind |-> "usage", names |-> {}]
          /\ pc' = "idle"
     ELSE /\ exit' = "none"
          /\ err' = NoError
          /\ pc' = "detect"
  /\ UNCHANGED << xmind, mdfile, memory, fmt, md_text, sheets, variant0, codecVars, parseVars >>

\* update_xmind: fmt = detect_format(xmind_path)
UpdateDetect ==
  /\ pc = "detect"
  /\ LET d == DetectFormat(xmind.archive)
     IN  IF d.ok
         THEN /\ fmt' = d.fmt
              /\ variant0' = IF variant0 = "none" THEN d.fmt ELSE variant0
              /\ pc' = "read"
              /\ UNCHANGED << exit, err >>
         ELSE /\ exit' = "raised"
              /\ err' = [kind |-> "format", names |-> d.names]
              /\ pc' = "idle"
              /\ UNCHANGED << fmt, variant0 >>
  /\ UNCHANGED << xmind, mdfile, memory, md_text, sheets, last, before, codecVars, parseVars >>

\* update_xmind opening the package for writing before it reads the text
UpdateReadAfterOpeningTarget ==
  /\ pc = "read"
  /\ xmind' = PackageFile(NoArchive)
  /\ IF mdfile.readable
     THEN /\ md_text' = mdfile.text
          /\ pc' = "parse"
          /\ UNCHANGED << exit, err >>
     ELSE /\ exit' = "raised"
          /\ err' = [kind |-> "read", names |-> {}]
          /\ pc' = "idle"
          /\ UNCHANGED md_text
  /\ UNCHANGED << mdfile, memory, fmt, sheets, last, before, variant0, codecVars, parseVars >>

\* update_xmind: md_text = f.read()
UpdateRead ==
  /\ pc = "read"
  /\ IF mdfile.readable
     THEN /\ md_text' = mdfile.text
          /\ pc' = "parse"
          /\ UNCHANGED << exit, err >>
     ELSE /\ exit' = "raised"
          /\ err' = [kind |-> "read", names |-> {}]
          /\ pc' = "idle"
          /\ UNCHANGED md_text
  /\ UNCHANGED << xmind, mdfile, memory, fmt, sheets, last, before, variant0, codecVars, parseVars >>

\* update_xmind: sheets = markdown_to_sheets(md_text)
UpdateParse ==
  /\ pc = "parse"
  /\ sheets' = MarkdownToSheets(md_text)
  /\ pc' = "write"
  /\ UNCHANGED << xmind, mdfile, memory, fmt, md_text, exit, err, last, before, variant0,
                  codecVars, parseVars >>

\* update_xmind: create_zen / create_legacy over xmind_path
UpdateWrite ==
  /\ pc = "write"
  /\ xmind' = PackageFile(CreateFor(fmt, sheets))
  /\ pc' = "memory"
  /\ UNCHANGED << mdfile, memory, fmt, md_text, sheets, exit, err, last, before, variant0,
                  codecVars, parseVars >>

\* cmd_update after update_xmind returned: the memory file and return 0
UpdateMemory ==
  /\ pc = "memory"
  /\ memory' = [exists |-> TRUE, text |-> mdfile.text]
  /\ exit' = "ok"
  /\ pc' = "idle"
  /\ UNCHANGED << xmind, mdfile, fmt, md_text, sheets, err, last, before, variant0,
                  codecVars, parseVars >>

CmdMemory ==
  /\ pc = "idle"
  /\ last' = "memory"
  /\ exit' = IF memory.exists THEN "ok" ELSE "error"
  /\ err' = IF memory.exists THEN NoError ELSE [kind |-> "usage", names |-> {}]
  /\ UNCHANGED << xmind, mdfile, memory, pc, fmt, md_text, sheets, before, variant0,
                  codecVars, parseVars >>

Next ==
  \/ EditMd
  \/ CmdParse
  \/ CmdCreate
  \/ UpdateBegin
  \/ UpdateDetect
  \/ UpdateRead
  \/ UpdateParse
  \/ UpdateWrite
  \/ UpdateMemory
  \/ CmdMemory

Spec == Init /\ [][Next]_vars

(***************************************************************************)
(* Properties of the codecs (checked under SpecCodec)                      *)
(***************************************************************************)

\* a topic tree with every identifier replaced by the same token
RECURSIVE StripTopicIds(_)
StripTopicIds(topic) ==
  [topic EXCEPT !.id = GenId, !.children = MapSeq(StripTopicIds, topic.children)]

StripSheetIds(sheet) ==
  [sheet EXCEPT !.id = GenId, !.root_topic = MapSeq(StripTopicIds, sheet.root_topic)]

\* structural equality of two documents, identifiers ignored
SameIgnoringIds(a, b) == MapSeq(StripSheetIds, a) = MapSeq(StripSheetIds, b)

\* C1: decoding the outline text of a document gives back the document:
\* the same sheets in the same order, the same titles, tree shape, child
\* order, notes, labels, link and markers, identifiers ignored.
C1_OutlineRoundTrip ==
  (src = "doc" /\ stage \in {"parsed", "md2"}) => SameIgnoringIds(parsed, doc)

\* C2: the outline text of a document is stable under decode then encode:
\* encoding the decoded text gives the identical text.
C2_OutlineTextStable ==
  (src = "doc" /\ stage = "md2") => md2 = md

\* C7: parse_zen of the archive create_zen writes for a document is the
\* document: sheet ids and titles, presence of the root topic, and every
\* topic's id, title, notes, labels, link, markers and ordered children.
C7_ZenRoundTrip ==
  stage = "zen_parsed" => parsed = doc

\* a two-sheet document went through create_zen and parse_zen, its first
\* root carrying notes, labels, markers or link and children with children
C7_Witness ==
  /\ stage = "zen_parsed"
  /\ Len(doc) = 2
  /\ Len(doc[1].root_topic) = 1
  /\ Len(doc[1].root_topic[1].notes) > 0
  /\ Len(doc[1].root_topic[1].markers) > 0
  /\ Len(doc[1].root_topic[1].children) = 2
  /\ Len(doc[1].root_topic[1].children[1].children) > 0
  /\ Len(doc[2].root_topic) = 0

\* C8: parse_legacy of the archive create_legacy writes for a document is
\* the document (timestamps are not part of the document model).
C8_LegacyRoundTrip ==
  stage = "legacy_parsed" => parsed = doc

\* the document the scenario text stands for
CanonDoc ==
  << Sheet(GenId, << "S" >>,
       << Topic(GenId, << "R", "o", "o", "t" >>,
            << Topic(GenId, << "C", "h", "i", "l", "d", " ", "A" >>, << >>,
                     << "a", " ", "n", "o", "t", "e" >>, << << "x" >>, << "y" >> >>,
                     << >>, << >>),
               Topic(GenId, << "C", "h", "i", "l", "d", " ", "B" >>, << >>,
                     << >>, << >>, << >>, << >>) >>,
            << >>, << >>, << >>, << >>) >>) >>

\* C9: the scenario text decodes to one sheet S with root Root and the
\* children Child A (labels x, y; notes "a note") and Child B (nothing
\* else), and encoding that result reproduces the text line for line.
C9_CanonicalTextSurvives ==
  (src = "text" /\ md = CanonText)
    => /\ (stage \in {"parsed", "md2"} => parsed = CanonDoc)
       /\ (stage = "md2" => md2 = md)

SepLine == << "-", "-", "-" >>

IsMark(line) == line = SepLine \/ StartsWith(line, SheetPrefix)

EverySheetRooted(d) == \A i \in 1..Len(d) : Len(d[i].root_topic) = 1

C3_NoWriteBeforeParse ==
  /\ pc \in {"detect", "read", "parse", "write"} => xmind = before
  /\ (pc = "idle" /\ last = "update" /\ exit \in {"error", "raised"}) => xmind = before

\* an update found its format, then failed reading the text file
C3_Witness ==
  /\ pc = "idle" /\ last = "update" /\ exit = "raised" /\ err.kind = "read"
  /\ xmind.exists /\ fmt \in {"zen", "legacy"}

\* the last create or update read its text file and decoded no sheet from it
DecodedNoSheet ==
  /\ pc = "idle" /\ last \in {"create", "update"}
  /\ exit # "none" /\ err.kind \in {"none", "nosheets"}
  /\ MarkdownToSheets(md_text) = << >>

\* C4: when the text decodes to no sheet, markdown_to_sheets returns the
\* empty sequence without error and both create and update end with the
\* NoSheetsParsed error, a non-zero exit, and write no package.
C4_ZeroSheetsRejected ==
  DecodedNoSheet => (exit = "error" /\ err.kind = "nosheets" /\ xmind = before)

\* C5: an update leaves a package of the variant it found, and after any
\* run of updates the package is still of the variant the first one found.
C5_UpdateKeepsVariant ==
  /\ (pc = "memory" \/ (pc = "idle" /\ last = "update" /\ exit = "ok"))
       => DetectFormat(xmind.archive) = [ok |-> TRUE, fmt |-> fmt, names |-> DOMAIN xmind.archive]
  /\ variant0 # "none"
       => (DetectFormat(xmind.archive).ok /\ DetectFormat(xmind.archive).fmt = variant0)

\* an update of a legacy package has rewritten it
C5_Witness ==
  /\ pc = "idle" /\ last = "update" /\ exit = "ok"
  /\ variant0 = "legacy" /\ xmind # before
  /\ "content.json" \notin DOMAIN before.archive

\* C6: detect_format answers from the entry names alone: zen when
\* content.json is there (content.xml or not), else legacy when content.xml
\* is there, else the FormatUnrecognized error carrying the names found.
C6_DetectByEntryNames ==
  LET names == DOMAIN xmind.archive
  IN  /\ pc = "read"
        => /\ "content.json" \in names => fmt = "zen"
           /\ "content.json" \notin names => ("content.xml" \in names /\ fmt = "legacy")
      /\ (pc = "idle" /\ last \in {"update", "parse"} /\ exit = "raised" /\ err.kind = "format")
        => /\ "content.json" \notin names /\ "content.xml" \notin names
           /\ err.names = names
      /\ (pc = "idle" /\ last = "parse" /\ exit = "ok")
        => ("content.json" \in names \/ "content.xml" \in names)

\* detection has answered for a package holding both content entries
C6_Witness ==
  /\ pc = "read"
  /\ {"content.json", "content.xml", "Thumbnails/thumbnail.png"} \subseteq DOMAIN xmind.archive
  /\ fmt = "zen"

(***************************************************************************)
(* Properties of the two parsers (checked under SpecParse)                 *)
(***************************************************************************)

\* the indent of the item opened by the first line
FirstIndent == LeadWS(item_lines[1])

NonBlank(j) == Len(Strip(item_lines[j])) > 0

IndentAt(j) == LeadWS(item_lines[j])

\* the inner loop of the first item went past line j
InFirstItem(j) == j \in 2..(scan.idx - 1)

\* a child bullet of the first item stands before line j
ChildBulletBefore(j) ==
  \E m \in 2..(j - 1) : IsBullet(item_lines[m]) /\ IndentAt(m) > FirstIndent

\* the text of line j is among the notes of the first item returned
InNotes(j) ==
  \E p \in 1..Len(items[1].notes) : items[1].notes[p] = Marks[j]

InChildLines(j) ==
  \E p \in 1..Len(scan.child_lines) : scan.child_lines[p] = item_lines[j]

InNoteLines(j) ==
  \E p \in 1..Len(scan.note_lines) : scan.note_lines[p] = << Marks[j] >>

\* C11: a quoted line that follows a bullet item at indent k is added to the
\* item's own notes if and only if it is indented exactly k+2 and no child
\* bullet of the item stands before it; after a child bullet, a quoted line
\* at k+2 goes to the children's lines and never to the parent's notes.
C11_NoteBeforeChild ==
  (src = "lines" /\ stage = "items") =>
    \A j \in 2..Len(item_lines) :
      (IsQuote(item_lines[j]) /\ InFirstItem(j)) =>
        /\ InNotes(j) <=> (IndentAt(j) = FirstIndent + 2 /\ ~ChildBulletBefore(j))
        /\ (IndentAt(j) = FirstIndent + 2 /\ ChildBulletBefore(j)) =>
             (InChildLines(j) /\ ~InNotes(j))

\* the first non-blank line at or below the indent of the first item, or the
\* position after the last line
ItemEnd ==
  LET ends == {j \in 2..Len(item_lines) : NonBlank(j) /\ IndentAt(j) <= FirstIndent}
  IN  IF ends = {} THEN Len(item_lines) + 1
      ELSE CHOOSE j \in ends : \A e \in ends : j <= e

\* the pairs << title, title of the parent >> of a forest; << >> for no parent
RECURSIVE ParentPairs(_, _)
ParentPairs(ts, parent) ==
  IF Len(ts) = 0 THEN {}
  ELSE {<< Head(ts).title, parent >>}
       \cup ParentPairs(Head(ts).children, Head(ts).title)
       \cup ParentPairs(Tail(ts), parent)

\* the nearest bullet before line j with a smaller indent that no line in
\* between has ended; << >> where there is none
NearestOpenBullet(j) ==
  LET open == {i \in 1..(j - 1) :
                 /\ IsBullet(item_lines[i])
                 /\ IndentAt(i) < IndentAt(j)
                 /\ \A m \in (i + 1)..(j - 1) : NonBlank(m) => IndentAt(m) > IndentAt(i)}
  IN  IF open = {} THEN << >>
      ELSE << Marks[CHOOSE i \in open : \A o \in open : o <= i] >>

\* C12: for a bullet item at indent k, every following non-blank line indented
\* more than k, up to the first non-blank line at or below k, is attributed to
\* the item (note or nested content) and that first line ends the item; hence
\* every bullet becomes a child of the nearest preceding bullet with a smaller
\* indent that has not ended, or a top-level item.
C12_ItemExtent ==
  (src = "lines" /\ stage = "items") =>
    /\ scan.idx = ItemEnd
    /\ \A j \in 2..(ItemEnd - 1) : NonBlank(j) => (InChildLines(j) \/ InNoteLines(j))
    /\ \A j \in 1..Len(item_lines) :
         IsItem(item_lines[j]) =>
           << << Marks[j] >>, NearestOpenBullet(j) >> \in ParentPairs(items, << >>)

\* the inserts of the ops that are objects with a string insert, concatenated
RECURSIVE InsertsOf(_)
InsertsOf(ops) ==
  IF Len(ops) = 0 THEN << >>
  ELSE (IF Head(ops).t = "obj" /\ "insert" \in DOMAIN Head(ops).obj
           /\ Head(ops).obj["insert"].t = "str"
        THEN Head(ops).obj["insert"].str ELSE << >>)
       \o InsertsOf(Tail(ops))

\* the notes the three recognised shapes stand for, plain first
ShapeNotes(data) ==
  LET n == IF "notes" \in DOMAIN data.obj THEN data.obj["notes"] ELSE JObj(NoKeys)
      has(k) == n.t = "obj" /\ k \in DOMAIN n.obj
  IN  IF has("plain") /\ n.obj["plain"].t = "obj"
      THEN (IF "content" \in DOMAIN n.obj["plain"].obj
            THEN n.obj["plain"].obj["content"].str ELSE << >>)
      ELSE IF has("ops") /\ n.obj["ops"].t = "arr"
      THEN Strip(InsertsOf(n.obj["ops"].arr))
      ELSE IF has("ops") /\ n.obj["ops"].t = "obj" /\ "ops" \in DOMAIN n.obj["ops"].obj
              /\ n.obj["ops"].obj["ops"].t = "arr"
      THEN Strip(InsertsOf(n.obj["ops"].obj["ops"].arr))
      ELSE << >>

\* C13: for every value of the notes field _parse_zen_topic returns without
\* raising, with the plain content for the plain shape, else the trimmed
\* concatenation of the inserts for the two ops shapes, else empty notes.
C13_NotesTotal ==
  (src = "data" /\ stage \in {"topic", "raised"}) =>
    /\ stage = "topic"
    /\ zen_topic.ok
    /\ zen_topic.topic.notes = ShapeNotes(topic_data)

====
